---- MODULE Spec2Model ----
(***************************************************************************)
(* Genetic-algorithm knapsack solver: a model of solve_knapsack and the    *)
(* functions it calls (app_20241113232712.py).                             *)
(*                                                                         *)
(* Individuals are Python objects with identity: the model keeps a heap    *)
(* `bits` from object ids to bit vectors, and every list of the program    *)
(* (population, next_gen, parents, children) is a sequence of object ids,  *)
(* so that two list slots holding the same object share its bits.          *)
(*                                                                         *)
(* Random draws of random.random() are the values d / RateDen for          *)
(* d \in 0..RateDen-1 (the half-open interval [0,1)); the two rates are    *)
(* r / RateDen for r \in Rates.                                            *)
(***************************************************************************)
EXTENDS Integers, Sequences, FiniteSets, TLC

VARIABLES
    data,             \* the request body (request.get_json())
    pc,               \* position of solve_knapsack
    items,            \* the catalog: sequence of Item
    bits,             \* heap: object id -> Individual.bits
    pop_set,          \* the set `population` of generate_initial_population
    max_attempts,     \* generate_initial_population's draw budget
    population,       \* the list `population` of solve_knapsack
    best_solution,    \* object id, or None
    gen,              \* the loop index `_` of `for _ in range(generations)`
    next_gen,         \* the list `next_gen` of next_generation
    parents,          \* the list returned by selection
    children,         \* the list returned by crossover
    response,         \* the response of solve_knapsack
    transitions,      \* history: completed next_generation calls
    fills,            \* history: fill-loop iterations started in this run
    best_seen,        \* history: greatest fitness of a population member at a snapshot
    any_feasible,     \* history: some population snapshot held a feasible candidate
    last_best,        \* history: best-so-far fitness at the latest snapshot
    evaluated,        \* fitness check: what the methods of each Individual returned
    draw,             \* history: the random.random() value crossover drew, if any
    elite_bits,       \* history: the elites' bit vectors when the transition began
    twin              \* a second run of solve fed the same draws (determinism check)

vars == <<data, pc, items, bits, pop_set, max_attempts, population,
          best_solution, gen, next_gen, parents, children, response,
          transitions, fills, best_seen, any_feasible, last_best,
          evaluated, draw, elite_bits, twin>>

-----------------------------------------------------------------------------
(* Bounds *)

MaxItems == 2          \* longest catalog
MaxCapacity == 5       \* largest max_weight
MaxPopulation == 2     \* largest population_size of a run
MaxGenerations == 2    \* largest generations
RateDen == 4           \* resolution of random.random() and of the rates
MaxScenarioPopulation == 3 \* largest population_size over the scenario catalog
                           \* whose generations are followed step by step
DefaultPopulation == 6     \* data.get('population_size', 6), the scenario's size
MaxTournamentPopulation == 5 \* largest population_size of the tournament check
MaxInitPopulation == 3 \* largest population_size of the initializer check
MaxFitItems == 2       \* longest catalog of the fitness check
MaxFitNumber == 2      \* largest weight, value and max_weight of the fitness check

None == 0              \* Python's None for an object reference (ids start at 1)

Rates == {0, RateDen \div 2, RateDen}
Draws == 0 .. (RateDen - 1)
NoDraw == RateDen      \* "random.random() was not called"

-----------------------------------------------------------------------------
(* Sequence helpers *)

Range(s) == {s[i] : i \in DOMAIN s}

Min2(a, b) == IF a <= b THEN a ELSE b
Max2(a, b) == IF a >= b THEN a ELSE b
Abs(x) == IF x < 0 THEN -x ELSE x

\* s[:n]
Take(s, n) == SubSeq(s, 1, Min2(n, Len(s)))
\* s[n:]   (0-based n, as in Python)
Drop(s, n) == SubSeq(s, n + 1, Len(s))

RECURSIVE SumSeq(_)
SumSeq(s) == IF s = <<>> THEN 0 ELSE Head(s) + SumSeq(Tail(s))

\* zip(a, b) stops at the shorter sequence
ZipLen(a, b) == Min2(Len(a), Len(b))

-----------------------------------------------------------------------------
(* Item and Individual *)

\* Item(name, weight, value)
Item(n, w, v) == [name |-> n, weight |-> w, value |-> v]

\* sum(bit * item.value for item, bit in zip(self.items, self.bits))
TotalValue(its, b) == SumSeq([i \in 1..ZipLen(its, b) |-> b[i] * its[i].value])

\* Individual.get_total_weight
get_total_weight(its, b) == SumSeq([i \in 1..ZipLen(its, b) |-> b[i] * its[i].weight])

\* fitness with a hard reject: an infeasible candidate scores 0
fitness_hard_reject(its, b, mw) ==
    IF get_total_weight(its, b) <= mw THEN TotalValue(its, b) ELSE 0

\* fitness with a strict capacity test: a candidate of weight max_weight is penalised
fitness_strict_cap(its, b, mw) ==
    IF get_total_weight(its, b) < mw THEN TotalValue(its, b)
    ELSE -Abs(get_total_weight(its, b) - mw)

\* Individual.fitness
fitness(its, b, mw) ==
    LET total_value == TotalValue(its, b)
        total_weight == get_total_weight(its, b)
    IN IF total_weight <= mw THEN total_value
       ELSE -Abs(total_weight - mw)

\* Individual.get_selected_items: the catalog positions whose bit is 1, in order
RECURSIVE SelectedFrom(_, _, _)
SelectedFrom(its, b, i) ==
    IF i > ZipLen(its, b) THEN <<>>
    ELSE (IF b[i] = 1 THEN <<its[i]>> ELSE <<>>) \o SelectedFrom(its, b, i + 1)

\* the items whose bit is 0
get_selected_items_unselected(its, b) == SelectedFrom(its, [i \in DOMAIN b |-> 1 - b[i]], 1)

get_selected_items(its, b) == SelectedFrom(its, b, 1)

BitVectors(n) == [1..n -> {0, 1}]

-----------------------------------------------------------------------------
(* Requests *)

\* a JSON field of an item: a number, absent, or a non-numeric string
Num(n) == [t |-> "num", n |-> n]
Missing == [t |-> "missing", n |-> 0]
Text == [t |-> "text", n |-> 0]

RawItem(n, w, v) == [name |-> n, weight |-> w, value |-> v]

\* the catalog of the documented scenario: A(2,3), B(3,4), C(4,5), D(5,6)
ScenarioItems ==
    << RawItem("A", Num(2), Num(3)), RawItem("B", Num(3), Num(4)),
       RawItem("C", Num(4), Num(5)), RawItem("D", Num(5), Num(6)) >>

\* "no fitness observed yet" in the history variables: below every fitness, which
\* is at least -(total catalog weight - max_weight) with max_weight >= -1
NoFitness == -(SumSeq([i \in DOMAIN ScenarioItems |-> ScenarioItems[i].weight.n]) + 2)

Request(js, has, its, mw, ps, g, cr, mr) ==
    [json |-> js, has_items |-> has, items |-> its, max_weight |-> mw,
     population_size |-> ps, generations |-> g,
     crossover_rate |-> cr, mutation_rate |-> mr]

ValidRequests ==
    { Request(TRUE, TRUE, Take(ScenarioItems, n), mw, ps, g, cr, mr) :
        n \in 1..MaxItems, mw \in -1..MaxCapacity, ps \in 0..MaxPopulation,
        g \in 0..MaxGenerations, cr \in Rates, mr \in Rates }

BadItemLists ==
    { <<>>,
      << RawItem("A", Missing, Num(3)) >>,
      << RawItem("A", Num(2), Num(3)), RawItem("B", Num(3), Text) >>,
      << RawItem("A", Text, Missing) >> }

InvalidRequests ==
    { Request(js, has, its, 5, ps, g, RateDen \div 2, RateDen \div 2) :
        js \in BOOLEAN, has \in BOOLEAN,
        its \in BadItemLists \cup {Take(ScenarioItems, 1)},
        ps \in 1..2, g \in 0..1 }
    \ ValidRequests

\* a lenient conversion that never raises
IntRaises_lenient(x) == FALSE

\* int(x) raises on an absent key (KeyError) and on a non-numeric string (ValueError)
IntRaises(x) == x.t # "num"
IntOf(x) == x.n

\* data.get('items', [])
ItemsData(d) == IF d.has_items THEN d.items ELSE <<>>

\* the request passes lines 113-127 without an error response
RequestValid(d) ==
    /\ d.json
    /\ ItemsData(d) # <<>>
    /\ \A i \in DOMAIN ItemsData(d) :
          ~IntRaises(ItemsData(d)[i].weight) /\ ~IntRaises(ItemsData(d)[i].value)

-----------------------------------------------------------------------------
(* Responses *)

NoResponse == [kind |-> "none", status |-> 0, selected_items |-> <<>>,
               total_value |-> 0, total_weight |-> 0]

ErrorResponse(code) == [kind |-> "error", status |-> code, selected_items |-> <<>>,
                        total_value |-> 0, total_weight |-> 0]

Result(sel, v, w) == [kind |-> "ok", status |-> 200, selected_items |-> sel,
                      total_value |-> v, total_weight |-> w]

EmptyResult == Result(<<>>, 0, 0)

-----------------------------------------------------------------------------
(* The run *)

max_weight == data.max_weight
population_size == data.population_size
generations == data.generations
crossover_rate == data.crossover_rate
mutation_rate == data.mutation_rate

\* x.fitness() in the heap h
FitIn(h, x) == fitness(items, h[x], max_weight)

\* max without its key: the first element of the list
FirstMax_no_key(h, seq) == seq[1]

\* max(seq, key=lambda x: x.fitness()): the first element of greatest fitness
FirstMax(h, seq) ==
    LET i == CHOOSE i \in DOMAIN seq :
                 /\ \A j \in DOMAIN seq : FitIn(h, seq[j]) <= FitIn(h, seq[i])
                 /\ \A j \in 1..(i - 1) : FitIn(h, seq[j]) < FitIn(h, seq[i])
    IN seq[i]

\* sorted(seq, key=lambda x: x.fitness(), reverse=True): stable, descending
RECURSIVE SortedDesc(_, _)
SortedDesc(h, seq) ==
    IF seq = <<>> THEN <<>>
    ELSE LET i == CHOOSE i \in DOMAIN seq :
                     /\ \A j \in DOMAIN seq : FitIn(h, seq[j]) <= FitIn(h, seq[i])
                     /\ \A j \in 1..(i - 1) : FitIn(h, seq[j]) < FitIn(h, seq[i])
         IN <<seq[i]>> \o SortedDesc(h, SubSeq(seq, 1, i - 1) \o SubSeq(seq, i + 1, Len(seq)))

\* the id of a newly constructed object
NewId(h) == CHOOSE k \in 1..(Cardinality(DOMAIN h) + 1) : k \notin DOMAIN h

\* random.sample(seq, k): k elements from distinct positions, in a random order
\* (Picks: the sequences of k distinct positions)
RECURSIVE Picks(_, _)
Picks(P, k) ==
    IF k = 0 THEN { <<>> }
    ELSE UNION { { <<i>> \o rest : rest \in Picks(P \ {i}, k - 1) } : i \in P }

Sample(seq, k) == { [i \in 1..k |-> seq[pos[i]]] : pos \in Picks(DOMAIN seq, k) }

\* the orders in which list(a_set) can enumerate a set.  Objects holding equal
\* bits differ by name only, so of the orders that differ by exchanging such
\* objects the one listing them by increasing name stands for all.
RECURSIVE ListsOfSet(_, _)
ListsOfSet(h, S) ==
    IF S = {} THEN { <<>> }
    ELSE UNION { { <<x>> \o lst : lst \in ListsOfSet(h, S \ {x}) } :
                 x \in { y \in S : \A z \in S : h[z] = h[y] => y <= z } }

\* Object ids are names without meaning to the program (an Individual is never
\* compared or hashed by address in a way that reaches the result), so whenever
\* a population is complete the live objects are renamed 1..k in the order of
\* their first occurrence in the population, followed by the best-so-far.
RECURSIVE Distinct(_)
Distinct(s) ==
    IF s = <<>> THEN <<>>
    ELSE LET r == Distinct(SubSeq(s, 1, Len(s) - 1))
         IN IF s[Len(s)] \in Range(r) THEN r ELSE Append(r, s[Len(s)])

LiveOrder(pop, best) == Distinct(pop \o (IF best = None THEN <<>> ELSE <<best>>))

NameOf(order, x) == IF x = None THEN None ELSE CHOOSE i \in DOMAIN order : order[i] = x

RenamedHeap(h, pop, best) ==
    LET order == LiveOrder(pop, best) IN [i \in DOMAIN order |-> h[order[i]]]
RenamedList(pop, best) ==
    LET order == LiveOrder(pop, best) IN [i \in DOMAIN pop |-> NameOf(order, pop[i])]
RenamedRef(pop, best) == NameOf(LiveOrder(pop, best), best)

\* A set of objects has no order and its members have no names: they are
\* renamed 1..k by their bits read as a binary number, equal bits by old name.
RECURSIVE BitsValue(_)
BitsValue(b) ==
    IF b = <<>> THEN 0 ELSE 2 * BitsValue(SubSeq(b, 1, Len(b) - 1)) + b[Len(b)]

\* the bit vectors s, which are in that order, with b put after those that are
\* not above it
InsertSorted(s, b) ==
    LET p == Cardinality({ i \in DOMAIN s : BitsValue(s[i]) <= BitsValue(b) })
    IN [i \in 1..(Len(s) + 1) |-> IF i <= p THEN s[i] ELSE IF i = p + 1 THEN b ELSE s[i - 1]]

\* the members of S are put in place one by one, by increasing old name
RECURSIVE RenamedSet(_, _)
RenamedSet(h, S) ==
    IF S = {} THEN <<>>
    ELSE LET y == CHOOSE y \in S : \A z \in S : z <= y
         IN InsertSorted(RenamedSet(h, S \ {y}), h[y])

EmptyHeap == [x \in {} |-> <<>>]

Feasible(h, x) == get_total_weight(items, h[x]) <= max_weight

MaxFitnessOf(h, seq) == IF seq = <<>> THEN NoFitness ELSE FitIn(h, FirstMax(h, seq))

\* the second run before it has built anything
NoTwin == [population |-> <<>>, response |-> NoResponse]

\* solve_knapsack has been entered with the request `data`
Start ==
    /\ pc = "start"
    /\ items = <<>>
    /\ bits = EmptyHeap
    /\ pop_set = {}
    /\ max_attempts = 0
    /\ population = <<>>
    /\ best_solution = None
    /\ gen = 0
    /\ next_gen = <<>>
    /\ parents = <<>>
    /\ children = <<>>
    /\ response = NoResponse
    /\ transitions = 0
    /\ fills = 0
    /\ best_seen = NoFitness
    /\ any_feasible = FALSE
    /\ last_best = NoFitness
    /\ evaluated = <<>>
    /\ draw = NoDraw
    /\ elite_bits = <<>>
    /\ twin = NoTwin

Init ==
    /\ data \in ValidRequests \cup InvalidRequests
    /\ Start

\* an exception anywhere in the try block: the handler answers 500
Raise ==
    /\ pc' = "done"
    /\ response' = ErrorResponse(500)

\* lines 113-127, and the entry of generate_initial_population (47-48)
ParseRequest ==
    /\ pc = "start"
    /\ IF ~data.json \/ ItemsData(data) = <<>>
       THEN /\ pc' = "done"
            /\ response' = ErrorResponse(400)
            /\ UNCHANGED <<items, max_attempts>>
       ELSE IF ~RequestValid(data)
       THEN /\ Raise
            /\ UNCHANGED <<items, max_attempts>>
       ELSE /\ items' = [i \in DOMAIN ItemsData(data) |->
                           Item(ItemsData(data)[i].name,
                                IntOf(ItemsData(data)[i].weight),
                                IntOf(ItemsData(data)[i].value))]
            /\ max_attempts' = population_size * 10
            /\ pc' = "generate"
            /\ UNCHANGED response
    /\ UNCHANGED <<evaluated, data, bits, pop_set, population, best_solution, gen, next_gen,
                   parents, children, transitions, fills, best_seen, any_feasible,
                   last_best, draw, elite_bits, twin>>

\* set.add as the docstring of generate_initial_population has it: an
\* individual whose bits are already in the set is not added
SetAdd_by_value(h, S, x) == IF \E y \in S : h[y] = h[x] THEN S ELSE S \cup {x}

\* set.add: Individual defines __hash__ but no __eq__, so two individuals are
\* equal only when they are the same object
SetAdd(h, S, x) == S \cup {x}

\* one iteration of either loop of generate_initial_population (50-54, 57-59),
\* the bits being drawn from D; an individual that the set does not take is
\* garbage
GenerateFrom(D) ==
    /\ pc = "generate"
    /\ Cardinality(pop_set) < population_size
    /\ \E b \in D :
          LET x == NewId(bits)
              h == [y \in DOMAIN bits \cup {x} |-> IF y = x THEN b ELSE bits[y]]
          IN /\ pop_set' = 1..Cardinality(SetAdd(h, pop_set, x))
             /\ bits' = RenamedSet(h, SetAdd(h, pop_set, x))
    /\ max_attempts' = IF max_attempts > 0 THEN max_attempts - 1 ELSE max_attempts
    /\ UNCHANGED <<evaluated, data, pc, items, population, best_solution, gen, next_gen,
                   parents, children, response, transitions, fills, best_seen,
                   any_feasible, last_best, draw, elite_bits, twin>>

generate_initial_population == GenerateFrom(BitVectors(Len(items)))

\* the history variables, taken when a population is complete
Snapshot(h, pop, best) ==
    /\ best_seen' = Max2(best_seen, MaxFitnessOf(h, pop))
    /\ any_feasible' = (any_feasible \/ \E i \in DOMAIN pop : Feasible(h, pop[i]))
    /\ last_best' = IF best = None THEN NoFitness ELSE FitIn(h, best)

\* `return list(population)` (61) and lines 129-130
InitialBestStep ==
    /\ pc = "generate"
    /\ Cardinality(pop_set) >= population_size
    /\ \E lst \in ListsOfSet(bits, pop_set) :
          LET best == IF lst = <<>> THEN None ELSE FirstMax(bits, lst)
          IN /\ population' = RenamedList(lst, best)
             /\ best_solution' = RenamedRef(lst, best)
             /\ bits' = RenamedHeap(bits, lst, best)
             /\ Snapshot(bits, lst, best)
    /\ pop_set' = {}
    /\ gen' = 0
    /\ pc' = "loop"
    /\ UNCHANGED <<evaluated, data, items, max_attempts, next_gen, parents, children,
                   response, transitions, fills, draw, elite_bits>>

InitialBest == InitialBestStep /\ UNCHANGED twin

\* max(1, len(population) // 10)
EliteCount(pop) == Max2(1, Len(pop) \div 10)

\* lines 98-99: the elites are the same objects as in the population
next_generation_begin ==
    /\ pc = "loop"
    /\ gen < generations
    /\ next_gen' = Take(SortedDesc(bits, population), EliteCount(population))
    /\ elite_bits' = [i \in DOMAIN next_gen' |-> bits[next_gen'[i]]]
    /\ pc' = "fill"
    /\ UNCHANGED <<evaluated, data, items, bits, pop_set, max_attempts, population,
                   best_solution, gen, parents, children, response, transitions,
                   fills, best_seen, any_feasible, last_best, draw, twin>>

\* a selection without tournaments: any two slots
Selected_any(h, pop) == Sample(pop, Min2(2, Len(pop)))

\* selection(population): the lists it can return
Selected(h, pop) ==
    IF Len(pop) < 4
    THEN Sample(pop, Min2(2, Len(pop)))
    ELSE LET \* the possible winners of one tournament
             winners == { FirstMax(h, tournament) : tournament \in Sample(pop, 4) }
         IN { <<w1, w2>> : w1 \in winners, w2 \in winners }

\* line 102
selection ==
    /\ pc = "fill"
    /\ Len(next_gen) < Len(population)
    /\ parents' \in Selected(bits, population)
    /\ fills' = fills + 1
    /\ pc' = "selected"
    /\ UNCHANGED <<evaluated, data, items, bits, pop_set, max_attempts, population,
                   best_solution, gen, next_gen, children, response, transitions,
                   best_seen, any_feasible, last_best, draw, elite_bits, twin>>

\* random.randint(a, b) raises ValueError on an empty range
RandintRaises(a, b) == a > b
\* a crossover point that may be 0
Randint_from_zero(a, b) == (a - 1) .. b

Randint(a, b) == a .. b

\* a child that copies the parent it starts with
ChildBits_copy(a, b, crossover_point) == a

\* lines 81-82: the bits of the child that starts with a and ends with b
ChildBits(a, b, crossover_point) == Take(a, crossover_point) \o Drop(b, crossover_point)

\* line 77: the draws random.random() can give; it is not called for fewer than
\* two parents (`or` short-circuits)
CrossoverDraws(ps) == IF Len(ps) < 2 THEN {NoDraw} ELSE Draws

\* line 77: crossover returns its argument
CrossoverSkips(ps, d, rate) == Len(ps) < 2 \/ d > rate

\* line 103: crossover(parents, items, max_weight, crossover_rate)
crossover ==
    /\ pc = "selected"
    /\ \E d \in CrossoverDraws(parents) :
         /\ draw' = d
         /\ IF CrossoverSkips(parents, d, crossover_rate)
            THEN \* return parents: the very same objects
                 /\ children' = parents
                 /\ pc' = "crossed"
                 /\ UNCHANGED <<bits, response>>
            ELSE IF RandintRaises(1, Len(items) - 1)
            THEN /\ Raise
                 /\ UNCHANGED <<bits, children>>
            ELSE \E crossover_point \in Randint(1, Len(items) - 1) :
                    LET child1_bits == ChildBits(bits[parents[1]], bits[parents[2]],
                                                 crossover_point)
                        child2_bits == ChildBits(bits[parents[2]], bits[parents[1]],
                                                 crossover_point)
                        c1 == NewId(bits)
                        h1 == [y \in DOMAIN bits \cup {c1} |->
                                 IF y = c1 THEN child1_bits ELSE bits[y]]
                        c2 == NewId(h1)
                        h2 == [y \in DOMAIN h1 \cup {c2} |->
                                 IF y = c2 THEN child2_bits ELSE h1[y]]
                    IN /\ bits' = h2
                       /\ children' = <<c1, c2>>
                       /\ pc' = "crossed"
                       /\ UNCHANGED response
    /\ UNCHANGED <<evaluated, data, items, pop_set, max_attempts, population, best_solution,
                   gen, next_gen, parents, transitions, fills, best_seen,
                   any_feasible, last_best, elite_bits, twin>>

\* the outcomes of `random.random() < mutation_rate`
FlipOutcomes(rate) == { d < rate : d \in Draws }

\* a flip that negates the bit
FlipBits_negates(b, flip) == [i \in DOMAIN b |-> IF flip[i] THEN -b[i] ELSE b[i]]

\* the inner loop of mutate on one bit vector: flip[i] says whether bit i is flipped
FlipBits(b, flip) == [i \in DOMAIN b |-> IF flip[i] THEN 1 - b[i] ELSE b[i]]

\* mutate(individuals, mutation_rate): the individuals are visited in list order
\* and changed in place, so an object listed twice is visited twice
RECURSIVE MutateFrom(_, _, _, _)
MutateFrom(h, individuals, flips, k) ==
    IF k > Len(individuals) THEN h
    ELSE MutateFrom([h EXCEPT ![individuals[k]] = FlipBits(h[individuals[k]], flips[k])],
                    individuals, flips, k + 1)

\* lines 104-105: mutate(children, mutation_rate); next_gen.extend(children)
mutate ==
    /\ pc = "crossed"
    /\ \E flips \in [DOMAIN children -> [1..Len(items) -> FlipOutcomes(mutation_rate)]] :
          bits' = MutateFrom(bits, children, flips, 1)
    /\ next_gen' = next_gen \o children
    /\ draw' = NoDraw
    /\ pc' = "fill"
    /\ UNCHANGED <<evaluated, data, items, pop_set, max_attempts, population, best_solution,
                   gen, parents, children, response, transitions, fills, best_seen,
                   any_feasible, last_best, elite_bits, twin>>

\* a loop that never replaces the best-so-far
UpdateBest_keeps_old(h, pop, best) == best

\* lines 134-136: the best-so-far after the update
UpdateBest(h, pop, best) ==
    LET current_best == FirstMax(h, pop)
    IN IF FitIn(h, current_best) > FitIn(h, best) THEN current_best ELSE best

\* next_generation returning everything it has built
Truncated_keeps_all(next, pop) == next

\* line 107: next_gen[:len(population)]
Truncated(next, pop) == Take(next, Len(pop))

\* line 107 (`return next_gen[:len(population)]`) and lines 133-136
next_generation_end ==
    /\ pc = "fill"
    /\ Len(next_gen) >= Len(population)
    /\ LET pop == Truncated(next_gen, population)
       IN /\ IF pop = <<>>
             THEN \* max() of an empty list raises ValueError
                  /\ Raise
                  /\ population' = pop
                  /\ UNCHANGED <<bits, best_solution, gen, transitions, best_seen,
                                 any_feasible, last_best>>
             ELSE LET best == UpdateBest(bits, pop, best_solution)
                  IN /\ population' = RenamedList(pop, best)
                     /\ best_solution' = RenamedRef(pop, best)
                     /\ bits' = RenamedHeap(bits, pop, best)
                     /\ gen' = gen + 1
                     /\ transitions' = transitions + 1
                     /\ pc' = "loop"
                     /\ Snapshot(bits, pop, best)
                     /\ UNCHANGED response
    /\ next_gen' = <<>>
    /\ parents' = <<>>
    /\ children' = <<>>
    /\ elite_bits' = <<>>
    /\ UNCHANGED <<evaluated, data, items, pop_set, max_attempts, fills, draw, twin>>

\* the projection without the weight test of line 138
Projection_no_weight_test(its, h, best, mw) ==
    IF best # None
    THEN Result(get_selected_items(its, h[best]),
                fitness(its, h[best], mw),
                get_total_weight(its, h[best]))
    ELSE [kind |-> "ok", status |-> 200, selected_items |-> <<>>,
          total_value |-> 0, total_weight |-> 0]

\* the projection testing the fitness, not the weight, against max_weight
Projection_tests_fitness(its, h, best, mw) ==
    IF best # None /\ fitness(its, h[best], mw) <= mw
    THEN Result(get_selected_items(its, h[best]),
                fitness(its, h[best], mw),
                get_total_weight(its, h[best]))
    ELSE [kind |-> "ok", status |-> 200, selected_items |-> <<>>,
          total_value |-> 0, total_weight |-> 0]

\* lines 138-145: the result projection
\* the projection that reports the summed value of the best-so-far candidate
\* whatever its weight
Projection_reports_value(its, h, best, mw) ==
    IF best # None
    THEN Result(get_selected_items(its, h[best]),
                TotalValue(its, h[best]),
                get_total_weight(its, h[best]))
    ELSE EmptyResult

Projection(its, h, best, mw) ==
    IF best # None /\ get_total_weight(its, h[best]) <= mw
    THEN Result(get_selected_items(its, h[best]),
                fitness(its, h[best], mw),
                get_total_weight(its, h[best]))
    ELSE EmptyResult

RespondStep ==
    /\ pc = "loop"
    /\ gen >= generations
    /\ response' = Projection(items, bits, best_solution, max_weight)
    /\ pc' = "done"
    /\ UNCHANGED <<evaluated, data, items, bits, pop_set, max_attempts, population,
                   best_solution, gen, next_gen, parents, children, transitions,
                   fills, best_seen, any_feasible, last_best, draw, elite_bits>>

Respond == RespondStep /\ UNCHANGED twin

\* max(list(a_set), key=lambda x: x.fitness()): list(a_set) enumerates the set
\* in an order of its own (ListsOfSet) and max returns the first member of
\* greatest fitness, so every member of greatest fitness can be the one returned
MaxOfSet(h, S) == { x \in S : \A y \in S : FitIn(h, y) <= FitIn(h, x) }

\* A call whose loop of line 132 has nothing to do, from the completed set of
\* generate_initial_population to the return, as one step: `return
\* list(population)` (61), lines 129-130 and 138-146.  The call has returned:
\* its candidates are released and what remains of it is the response.
solve_without_generations ==
    /\ pc = "generate"
    /\ Cardinality(pop_set) >= population_size
    /\ generations <= 0
    /\ \E best \in (IF pop_set = {} THEN {None} ELSE MaxOfSet(bits, pop_set)) :
          /\ response' = Projection(items, bits, best, max_weight)
          /\ Snapshot(bits, [i \in 1..Cardinality(pop_set) |-> i], best)
    /\ population' = <<>>
    /\ pop_set' = {}
    /\ bits' = EmptyHeap
    /\ best_solution' = None
    /\ pc' = "done"
    /\ UNCHANGED <<evaluated, data, items, max_attempts, gen, next_gen, parents, children,
                   transitions, fills, draw, elite_bits, twin>>

Next ==
    \/ ParseRequest
    \/ generate_initial_population
    \/ InitialBest
    \/ next_generation_begin
    \/ selection
    \/ crossover
    \/ mutate
    \/ next_generation_end
    \/ Respond

Spec == Init /\ [][Next]_vars

TypeOK ==
    /\ pc \in {"start", "generate", "loop", "fill", "selected", "crossed", "done"}
    /\ \A x \in DOMAIN bits : bits[x] \in BitVectors(Len(items))
    /\ Range(population) \subseteq DOMAIN bits
    /\ best_solution \in DOMAIN bits \cup {None}

-----------------------------------------------------------------------------
(* The scenario catalog A(2,3), B(3,4), C(4,5), D(5,6) with max_weight      *)
(* MaxCapacity: its populations of up to MaxScenarioPopulation candidates,   *)
(* reported as drawn or evolved for one generation with the rates of         *)
(* ScenarioRates.                                                            *)

\* crossover_rate and mutation_rate: always recombine and never flip, or never
\* recombine and always flip
ScenarioRates == { <<RateDen, 0>>, <<0, RateDen>> }

ScenarioRequests ==
    { Request(TRUE, TRUE, ScenarioItems, MaxCapacity, ps, g, rt[1], rt[2]) :
        ps \in 1..MaxScenarioPopulation, g \in 0..1, rt \in ScenarioRates }

InitScenario ==
    /\ data \in ScenarioRequests
    /\ Start

SpecScenario == InitScenario /\ [][Next]_vars

-----------------------------------------------------------------------------
(* The documented scenario: the catalog A(2,3), B(3,4), C(4,5), D(5,6) with  *)
(* max_weight 5 and population_size DefaultPopulation.  There are            *)
(* 16^DefaultPopulation lists of DefaultPopulation candidates, so the call   *)
(* is followed draw by draw while it builds the set of candidates and from   *)
(* the completed set to its response in one step, which a call of zero       *)
(* generations allows.  The requests of ScenarioRequests, with their         *)
(* generations, are followed step by step beside it.                         *)

DefaultRequests ==
    { Request(TRUE, TRUE, ScenarioItems, MaxCapacity, DefaultPopulation, 0, 0, 0) }

InitDefaultScenario ==
    /\ data \in ScenarioRequests \cup DefaultRequests
    /\ Start

NextDefaultScenario ==
    \/ ParseRequest
    \/ generate_initial_population
    \/ population_size <= MaxScenarioPopulation /\ InitialBest
    \/ next_generation_begin
    \/ selection
    \/ crossover
    \/ mutate
    \/ next_generation_end
    \/ Respond
    \/ solve_without_generations

SpecDefaultScenario == InitDefaultScenario /\ [][NextDefaultScenario]_vars

-----------------------------------------------------------------------------
(* Populations of up to MaxTournamentPopulation candidates, below and above  *)
(* the tournament size of selection, over the catalog A(2,3), B(3,4),        *)
(* evolved for one generation: always recombining and never flipping, or    *)
(* (the populations below the largest) never recombining and always         *)
(* flipping.                                                                 *)

TournamentRates(ps) ==
    { <<RateDen, 0>> } \cup (IF ps < MaxTournamentPopulation THEN { <<0, RateDen>> } ELSE {})

TournamentRequests ==
    UNION { { Request(TRUE, TRUE, Take(ScenarioItems, 2), MaxCapacity, ps, 1, rt[1], rt[2]) :
                rt \in TournamentRates(ps) } : ps \in 1..MaxTournamentPopulation }

InitTournament ==
    /\ data \in TournamentRequests
    /\ Start

SpecTournament == InitTournament /\ [][Next]_vars

-----------------------------------------------------------------------------
(* Two calls of solve_knapsack with the same request of zero generations,    *)
(* fed the same random draws.  The calls build the same set of individuals;  *)
(* the order in which list(population) enumerates it follows the hashes of   *)
(* the strings str(bits), which Python salts per process, so each call has   *)
(* its own.  `twin` holds the population (as bits) and the response of the   *)
(* second call.                                                              *)

\* the capacity that B and C fill, as A and D do, with the same summed value
TwinCapacity == ScenarioItems[2].weight.n + ScenarioItems[3].weight.n

TwinRequests ==
    { Request(TRUE, TRUE, ScenarioItems, TwinCapacity, ps, 0, 0, 0) :
        ps \in 0..MaxInitPopulation }

InitTwin ==
    /\ data \in TwinRequests
    /\ Start

\* lines 129-130 in both calls
TwinInitialBest ==
    /\ InitialBestStep
    /\ \E lst \in ListsOfSet(bits, pop_set) :
          twin' = [twin EXCEPT !.population = [i \in DOMAIN lst |-> bits[lst[i]]]]

\* lines 138-146 in both calls: the second call's objects are the positions of
\* its population
TwinRespond ==
    /\ RespondStep
    /\ LET h == twin.population
           lst == [i \in DOMAIN h |-> i]
           best == IF lst = <<>> THEN None ELSE FirstMax(h, lst)
       IN twin' = [twin EXCEPT !.response = Projection(items, h, best, max_weight)]

NextTwin ==
    \/ ParseRequest
    \/ generate_initial_population
    \/ TwinInitialBest
    \/ TwinRespond

SpecTwin == InitTwin /\ [][NextTwin]_vars

-----------------------------------------------------------------------------
(* The initializer on its own: runs of zero generations, with population     *)
(* sizes up to MaxInitPopulation, above the number of distinct bit vectors.  *)

InitRequests ==
    { Request(TRUE, TRUE, Take(ScenarioItems, n), 1, ps, 0, 0, 0) :
        n \in 1..MaxItems, ps \in 0..MaxInitPopulation }

InitInitializer ==
    /\ data \in InitRequests
    /\ Start

NextInitializer ==
    \/ ParseRequest
    \/ generate_initial_population
    \/ InitialBest
    \/ Respond

SpecInitializer == InitInitializer /\ [][NextInitializer]_vars

-----------------------------------------------------------------------------
(* The fitness evaluator on its own: every candidate over an arbitrary small  *)
(* catalog of non-negative weights and values is evaluated once.             *)

FitItems == { Item("x", w, v) : w \in 0..MaxFitNumber, v \in 0..MaxFitNumber }
FitCatalogs == UNION { [1..n -> FitItems] : n \in 0..MaxFitItems }

\* the k-th bit vector of length n, k \in 0..2^n-1
BitsOf(k, n) == [i \in 1..n |-> (k \div (2 ^ (i - 1))) % 2]

\* one Individual per bit vector of length n
AllCandidates(n) == [x \in 1..(2 ^ n) |-> BitsOf(x - 1, n)]

InitFit ==
    /\ items \in FitCatalogs
    /\ data \in { Request(TRUE, TRUE, <<>>, mw, 2 ^ Len(items), 0, 0, 0) :
                    mw \in -1..(MaxFitNumber * MaxFitItems) }
    /\ bits = AllCandidates(Len(items))
    /\ population = [x \in 1..(2 ^ Len(items)) |-> x]
    /\ pc = "fitness"
    /\ pop_set = {}
    /\ max_attempts = 0
    /\ best_solution = None
    /\ gen = 0
    /\ next_gen = <<>>
    /\ parents = <<>>
    /\ children = <<>>
    /\ response = NoResponse
    /\ transitions = 0
    /\ fills = 0
    /\ best_seen = NoFitness
    /\ any_feasible = FALSE
    /\ last_best = NoFitness
    /\ evaluated = <<>>
    /\ draw = NoDraw
    /\ elite_bits = <<>>
    /\ twin = NoTwin

\* x.fitness(), x.get_total_weight() and x.get_selected_items() of every candidate
EvaluateFitness ==
    /\ pc = "fitness"
    /\ evaluated' = [i \in DOMAIN population |->
                       [fitness |-> fitness(items, bits[population[i]], max_weight),
                        total_weight |-> get_total_weight(items, bits[population[i]]),
                        selected_items |-> get_selected_items(items, bits[population[i]])]]
    /\ pc' = "evaluated"
    /\ UNCHANGED <<data, items, bits, pop_set, max_attempts, population,
                   best_solution, gen, next_gen, parents, children, response,
                   transitions, fills, best_seen, any_feasible, last_best,
                   draw, elite_bits, twin>>

NextFit == EvaluateFitness

SpecFit == InitFit /\ [][NextFit]_vars

-----------------------------------------------------------------------------
(* Properties *)

\* the sums of section 4.1, taken over the catalog positions
RECURSIVE SigmaUpTo(_, _, _, _)
SigmaUpTo(its, b, field, n) ==
    IF n = 0 THEN 0
    ELSE SigmaUpTo(its, b, field, n - 1)
           + b[n] * (IF field = "value" THEN its[n].value ELSE its[n].weight)

SigmaValue(its, b) == SigmaUpTo(its, b, "value", Len(its))
SigmaWeight(its, b) == SigmaUpTo(its, b, "weight", Len(its))

\* the selected items of section 4.1: the items whose bit is 1, in catalog order
RECURSIVE SelectionUpTo(_, _, _)
SelectionUpTo(its, b, n) ==
    IF n = 0 THEN <<>>
    ELSE SelectionUpTo(its, b, n - 1) \o (IF b[n] = 1 THEN <<its[n]>> ELSE <<>>)

\* the success response that reports the bit vector b
ReportOf(its, b) ==
    [kind |-> "ok", status |-> 200, selected_items |-> SelectionUpTo(its, b, Len(its)),
     total_value |-> SigmaValue(its, b), total_weight |-> SigmaWeight(its, b)]

EmptyReport ==
    [kind |-> "ok", status |-> 200, selected_items |-> <<>>,
     total_value |-> 0, total_weight |-> 0]

Finished == pc = "done"
Succeeded == pc = "done" /\ response.kind = "ok"

\* the request is a JSON object with a non-empty list of well-formed items
WellFormed(d) ==
    /\ d.json /\ d.has_items /\ d.items # <<>>
    /\ \A i \in DOMAIN d.items : d.items[i].weight.t = "num" /\ d.items[i].value.t = "num"

\* C1 as stated: a success response never has total_weight > max_weight.
C1_WeightNeverAboveCap ==
    Succeeded => response.total_weight <= max_weight

\* C1 amended: a success response reports either the best-so-far candidate, whose
\* summed weight is <= max_weight, or the empty selection with value 0 and
\* weight 0; hence total_weight <= max_weight whenever max_weight >= 0.
C1_WeightWithinCapOrEmpty ==
    Succeeded =>
      /\ \/ response = EmptyReport
         \/ /\ best_solution # None
            /\ SigmaWeight(items, bits[best_solution]) <= max_weight
            /\ response.total_weight = SigmaWeight(items, bits[best_solution])
      /\ max_weight >= 0 => response.total_weight <= max_weight

\* after at least one generation the best-so-far candidate is over the capacity
\* (which is not negative) and the empty selection has been reported
C1_Witness ==
    /\ Succeeded
    /\ max_weight >= 0
    /\ transitions >= 1
    /\ best_solution # None
    /\ SigmaWeight(items, bits[best_solution]) > max_weight
    /\ response = EmptyReport

\* C2: when solve finishes, the fitness of the best-so-far candidate is at least
\* the fitness any candidate had while a member of the initial population or of
\* the population produced by a generation, and the reported total_value is at
\* least the value of any feasible candidate those populations held.
C2_BestCoversEveryPopulation ==
    Succeeded /\ best_solution # None =>
      /\ fitness(items, bits[best_solution], max_weight) >= best_seen
      /\ any_feasible => response.total_value >= best_seen

\* C3: the best-so-far fitness observed after a generation is at least the
\* best-so-far fitness observed after the generation before it (after the initial
\* population, for the first generation).
C3_BestNeverDecreases ==
    [][(pc = "fill" /\ pc' = "loop") => last_best' >= last_best]_vars

\* C4: if no population of a completed run ever held a feasible candidate, the
\* result is exactly the empty selection with value 0 and weight 0.
C4_NoFeasibleGivesEmpty ==
    Succeeded /\ ~any_feasible => response = EmptyReport

\* a run of at least one generation over a catalog that the capacity admits in
\* part, in which every member of every population was over the capacity
C4_Witness ==
    /\ Succeeded
    /\ ~any_feasible
    /\ max_weight >= 2
    /\ population_size >= 2
    /\ transitions >= 1
    /\ response = EmptyReport

\* C7: a well-formed request with population_size >= 1 always gets a
\* success-shaped result; no step of the loop fails.
C7_AlwaysSuccessShaped ==
    Finished /\ WellFormed(data) /\ population_size >= 1 => response.kind = "ok"

\* C8: with generations = 0 no generational transition is applied and the
\* result is the projection of a maximum-fitness candidate of the initial
\* population: the candidate itself if feasible, else the empty selection.
C8_ZeroGenerations ==
    Finished /\ WellFormed(data) /\ generations = 0 =>
      /\ transitions = 0
      /\ fills = 0
      /\ Len(population) = population_size
      /\ IF population = <<>>
         THEN response = EmptyReport
         ELSE \E i \in DOMAIN population :
                /\ \A j \in DOMAIN population :
                      fitness(items, bits[population[j]], max_weight)
                        <= fitness(items, bits[population[i]], max_weight)
                /\ response =
                      IF SigmaWeight(items, bits[population[i]]) <= max_weight
                      THEN ReportOf(items, bits[population[i]])
                      ELSE EmptyReport

\* generations = 0, the second candidate of the initial population is feasible
\* and strictly fitter than the first, and it is what is reported
C8_Witness ==
    /\ Finished
    /\ generations = 0
    /\ Len(population) = 2
    /\ fitness(items, bits[population[2]], max_weight)
          > fitness(items, bits[population[1]], max_weight)
    /\ response.total_value > 0
    /\ response = ReportOf(items, bits[population[2]])

\* the request has no items field or an empty items list, or an item whose
\* weight or value is missing or not numeric
Rejected(d) ==
    \/ ~d.has_items
    \/ d.items = <<>>
    \/ \E i \in DOMAIN d.items :
          d.items[i].weight.t \in {"missing", "text"}
            \/ d.items[i].value.t \in {"missing", "text"}

\* C9: a request without items, with an empty items list or with a missing or
\* non-numeric weight or value is answered with an error before any population
\* work: no individual is created and no generation runs.
C9_InvalidInputAborts ==
    Rejected(data) =>
      /\ pc \in {"start", "done"}
      /\ pc = "done" => response.kind = "error"
      /\ population = <<>> /\ pop_set = {} /\ DOMAIN bits = {}
      /\ transitions = 0 /\ fills = 0 /\ best_solution = None

\* a JSON request whose items are present but carry a non-numeric value has been
\* answered with an error
C9_Witness ==
    /\ Finished
    /\ data.json /\ data.has_items /\ data.items # <<>>
    /\ \E i \in DOMAIN data.items : data.items[i].value.t = "text"
    /\ response.kind = "error"
    /\ DOMAIN bits = {}

\* C10: a valid request with population_size >= 1 performs exactly `generations`
\* generational transitions, the index running 0..generations-1, and then
\* returns a result.
C10_ExactlyGenerationsTransitions ==
    /\ WellFormed(data) /\ population_size >= 1 /\ pc \in {"fill", "selected", "crossed"}
         => gen = transitions /\ gen \in 0..(generations - 1)
    /\ Finished /\ WellFormed(data) /\ population_size >= 1
         => transitions = generations /\ response.kind = "ok"

\* the optimum of the 0/1 knapsack instance: the greatest summed value of a
\* selection whose summed weight is within the capacity
Optimum(its, mw) ==
    LET values == { SigmaValue(its, b) :
                      b \in { c \in BitVectors(Len(its)) : SigmaWeight(its, c) <= mw } }
                  \cup {0}
    IN CHOOSE v \in values : \A u \in values : u <= v

\* the responses of a call of zero generations that lists its set of candidates
\* in each of the orders of ListsOfSet and takes the first of greatest fitness
ResponsesOfLists ==
    { Projection(items, bits, IF lst = <<>> THEN None ELSE FirstMax(bits, lst), max_weight) :
        lst \in ListsOfSet(bits, pop_set) }

\* the responses of solve_without_generations are those of the lists (checked
\* for the sets of up to MaxScenarioPopulation candidates)
MaxOfSetIsFirstMaxOfLists ==
    (pc = "generate" /\ Cardinality(pop_set) >= population_size
        /\ population_size <= MaxScenarioPopulation)
       => ResponsesOfLists
            = { Projection(items, bits, best, max_weight) :
                  best \in (IF pop_set = {} THEN {None} ELSE MaxOfSet(bits, pop_set)) }

C12_TwinRunsAgree ==
    /\ pc \in {"loop", "done"} =>
          twin.population = [i \in DOMAIN population |-> bits[population[i]]]
    /\ pc = "done" => twin.response = response

\* C13: the elite_count = max(1, population_size // 10) candidates of greatest
\* fitness of a generation are members of the next generation, with exactly the
\* bits they had when the transition began.
C13_ElitesSurvive ==
    [][(pc = "fill" /\ pc' = "loop") =>
          \A i \in DOMAIN elite_bits :
             \E j \in DOMAIN population' : bits'[population'[j]] = elite_bits[i]]_vars

\* C14: generate_initial_population terminates and returns exactly count
\* candidates, each a bit vector over the catalog, also when count exceeds the
\* number of distinct bit vectors: every draw adds one member (so the first loop
\* ends after count of its count * 10 draws), and the list returned has count
\* slots holding count objects.
C14_InitializerReturnsCount ==
    /\ pc = "generate" =>
          /\ Cardinality(pop_set) <= population_size
          /\ Cardinality(pop_set) = population_size * 10 - max_attempts
    /\ (pc \in {"loop", "done"} /\ WellFormed(data) /\ transitions = 0 /\ pc # "fill") =>
          /\ Len(population) = population_size
          /\ Cardinality(Range(population)) = population_size
          /\ \A i \in DOMAIN population :
                /\ Len(bits[population[i]]) = Len(items)
                /\ \A k \in 1..Len(items) : bits[population[i]][k] \in {0, 1}

\* more candidates than there are bit vectors have been returned, one of them
\* over the capacity
C14_Witness ==
    /\ pc = "loop"
    /\ population_size > 2 ^ Len(items)
    /\ Len(population) = population_size
    /\ \E i \in DOMAIN population : SigmaWeight(items, bits[population[i]]) > max_weight

\* C15: a population that the initializer completed within its budget of
\* count * 10 draws holds pairwise distinct bit vectors.
C15_InitialCandidatesDistinct ==
    (pc = "loop" /\ transitions = 0 /\ max_attempts > 0) =>
       \A i, j \in DOMAIN population :
          i # j => bits[population[i]] # bits[population[j]]

\* C16: the population has exactly population_size slots when the initializer
\* has returned and after every generational transition, for population sizes
\* odd and even, below and above 4; while a generation is being filled the
\* population it is built from keeps its size, and what is built overshoots by
\* at most one slot, which the truncation removes.
C16_PopulationSizeFixed ==
    /\ (pc \in {"loop", "fill", "selected", "crossed"} \/ Succeeded) =>
          Len(population) = population_size
    /\ pc \in {"fill", "selected", "crossed"} => Len(next_gen) <= population_size + 1

\* a generation of a population of at least 4 was built one slot too long and
\* truncated
C16_Witness ==
    /\ pc = "loop"
    /\ transitions >= 1
    /\ population_size >= 4
    /\ EliteCount(population) + 2 * fills > population_size
    /\ Len(population) = population_size

\* crossover has recombined: it returned new candidates
Recombined == pc = "selected" /\ pc' = "crossed" /\ children' # parents

\* the parents agree on the positions lo..hi
Agree(a, b, lo, hi) == \A i \in lo..hi : a[i] = b[i]

\* C17: when crossover recombines, there is a point p with 1 <= p <= n - 1 such
\* that child1 = parent0[0:p] + parent1[p:] and child2 = parent1[0:p] +
\* parent0[p:]; the two children are new candidates with bit vectors of their
\* own, and the bits of every candidate that existed, the parents included, are
\* unchanged.
C17_CrossoverRecombines ==
    [][Recombined =>
          LET n == Len(items)
              a == bits[parents[1]]
              b == bits[parents[2]]
          IN /\ Len(children') = 2
             /\ children'[1] # children'[2]
             /\ \A k \in 1..2 : children'[k] \notin DOMAIN bits
             /\ \E p \in 1..(n - 1) :
                   /\ bits'[children'[1]] = SubSeq(a, 1, p) \o SubSeq(b, p + 1, n)
                   /\ bits'[children'[2]] = SubSeq(b, 1, p) \o SubSeq(a, p + 1, n)
             /\ \A x \in DOMAIN bits : bits'[x] = bits[x]
             /\ parents' = parents /\ population' = population]_vars

\* crossover has recombined two parents at an inner point of the scenario
\* catalog: each child has bits of both parents and equals neither
C17_Witness ==
    /\ pc = "crossed"
    /\ children # parents
    /\ Len(items) = 4
    /\ bits[children[1]] = SubSeq(bits[parents[1]], 1, 2) \o SubSeq(bits[parents[2]], 3, 4)
    /\ bits[children[2]] = SubSeq(bits[parents[2]], 1, 2) \o SubSeq(bits[parents[1]], 3, 4)
    /\ \A k, m \in 1..2 : bits[children[k]] # bits[parents[m]]

\* C18 as stated: when crossover recombines, each child differs from each
\* parent.
C18_ChildrenDifferFromParents ==
    [][Recombined =>
          \A k, m \in 1..2 : bits'[children'[k]] # bits[parents[m]]]_vars

\* C18, amended: when crossover recombines at the point p, a child equals the
\* parent it starts with exactly when the parents agree after p, and the parent
\* it ends with exactly when the parents agree up to p; so each child differs
\* from each parent exactly when the parents differ on both sides of p.
C18_ChildEqualsParentIffSegmentsAgree ==
    [][Recombined =>
          LET n == Len(items)
              a == bits[parents[1]]
              b == bits[parents[2]]
              c1 == bits'[children'[1]]
              c2 == bits'[children'[2]]
          IN \E p \in 1..(n - 1) :
                /\ c1 = SubSeq(a, 1, p) \o SubSeq(b, p + 1, n)
                /\ c2 = SubSeq(b, 1, p) \o SubSeq(a, p + 1, n)
                /\ (c1 = a) <=> Agree(a, b, p + 1, n)
                /\ (c1 = b) <=> Agree(a, b, 1, p)
                /\ (c2 = b) <=> Agree(a, b, p + 1, n)
                /\ (c2 = a) <=> Agree(a, b, 1, p)
                /\ (\A k, m \in 1..2 : bits'[children'[k]] # bits[parents[m]])
                      <=> (~Agree(a, b, 1, p) /\ ~Agree(a, b, p + 1, n))]_vars

\* crossover has recombined two parents of different bits and a child equals a
\* parent
C18_Witness ==
    /\ pc = "crossed"
    /\ children # parents
    /\ bits[parents[1]] # bits[parents[2]]
    /\ bits[children[1]] = bits[parents[1]]
    /\ bits[children[2]] = bits[parents[2]]

\* C19: a call of crossover with fewer than two parents, or whose random draw
\* exceeds crossover_rate, returns exactly the given parents (1 or 2
\* candidates), changes no bits and creates no candidate; a call with two
\* parents and crossover_rate = 1 recombines.
C19_SkipReturnsParents ==
    [][(pc = "selected" /\ pc' # "selected") =>
          /\ (Len(parents) < 2 \/ draw' > crossover_rate) =>
                /\ pc' = "crossed"
                /\ children' = parents
                /\ Len(children') \in {1, 2}
                /\ bits' = bits
          /\ (Len(parents) = 2 /\ crossover_rate = RateDen) =>
                /\ pc' = "crossed"
                /\ Len(children') = 2
                /\ \A k \in 1..2 : children'[k] \notin DOMAIN bits]_vars

\* x can win a tournament: it is in one of the slots of some 4 distinct slots of
\* the population, and no candidate in those slots has a greater fitness
TournamentWinner(x) ==
    \E T \in SUBSET DOMAIN population :
       /\ Cardinality(T) = 4
       /\ \E i \in T : population[i] = x
       /\ \A j \in T : fitness(items, bits[population[j]], max_weight)
                           <= fitness(items, bits[x], max_weight)

\* C20: for a population of at least 4, select returns two parents, each a
\* candidate of maximum fitness among the 4 distinct slots of a tournament of
\* its own, and changes neither the population nor any candidate's bits.
C20_TournamentSelection ==
    [][(pc = "fill" /\ pc' = "selected" /\ Len(population) >= 4) =>
          /\ Len(parents') = 2
          /\ \A k \in 1..2 : TournamentWinner(parents'[k])
          /\ population' = population
          /\ bits' = bits]_vars

\* select has returned the same individual as both parents, the winner of
\* tournaments that left out a candidate of greater fitness
C20_Witness ==
    /\ pc = "selected"
    /\ Len(population) > 4
    /\ Len(parents) = 2
    /\ parents[1] = parents[2]
    /\ \E i \in DOMAIN population :
          fitness(items, bits[population[i]], max_weight)
             > fitness(items, bits[parents[1]], max_weight)

\* C21: for a population of fewer than 4 slots select does not fail and returns
\* min(2, n) members taken from distinct slots, and a generational transition
\* of a population of 1, 2 or 3 is not aborted.
C21_SmallPopulationSelects ==
    [][/\ (pc = "fill" /\ pc' = "selected" /\ Len(population) < 4) =>
             /\ Len(parents') = Min2(2, Len(population))
             /\ \E pos \in [DOMAIN parents' -> DOMAIN population] :
                   /\ \A k, m \in DOMAIN parents' : k # m => pos[k] # pos[m]
                   /\ \A k \in DOMAIN parents' : parents'[k] = population[pos[k]]
             /\ population' = population
             /\ bits' = bits
       /\ (pc \in {"fill", "selected", "crossed"} /\ population_size \in 1..3) =>
             response'.kind # "error"]_vars

\* C22: mutate changes only the candidates passed to it, and only by flipping
\* bits: every position holds its old bit b or 1 - b, in {0, 1}; lengths, the
\* catalog and max_weight are unchanged and no candidate is added or removed;
\* with mutation_rate = 0 no bit changes and with mutation_rate = 1 every bit
\* of every passed candidate is flipped.
C22_MutateFlipsInPlace ==
    [][(pc = "crossed" /\ pc' = "fill") =>
          /\ DOMAIN bits' = DOMAIN bits
          /\ children' = children /\ items' = items /\ data' = data
          /\ \A x \in DOMAIN bits :
                /\ Len(bits'[x]) = Len(bits[x])
                /\ \A i \in DOMAIN bits[x] :
                      /\ bits'[x][i] \in {bits[x][i], 1 - bits[x][i]}
                      /\ bits'[x][i] \in {0, 1}
                /\ x \notin Range(children) => bits'[x] = bits[x]
          /\ mutation_rate = 0 => bits' = bits
          /\ mutation_rate = RateDen =>
                \A x \in Range(children) :
                   \A i \in DOMAIN bits[x] : bits'[x][i] = 1 - bits[x][i]]_vars

\* the bit vector of x has one entry per catalog item, each 0 or 1
WellShaped(x) ==
    /\ Len(bits[x]) = Len(items)
    /\ \A i \in DOMAIN bits[x] : bits[x][i] \in {0, 1}

\* C23: in every state of a run, every candidate of the current population
\* and the best-so-far candidate (and every candidate being drawn, selected,
\* recombined or carried into the next generation) has a bit vector of the
\* catalog's length with entries in {0, 1}.
C23_BitVectorsWellShaped ==
    /\ \A i \in DOMAIN population : WellShaped(population[i])
    /\ best_solution # None => WellShaped(best_solution)
    /\ \A x \in pop_set \cup Range(next_gen) \cup Range(parents) \cup Range(children) :
          WellShaped(x)

\* a generation has been built by recombining and flipping every bit, and the
\* population holds an elite and a mutated child
C23_Witness ==
    /\ pc = "loop"
    /\ transitions >= 1
    /\ crossover_rate = RateDen
    /\ mutation_rate = RateDen
    /\ Len(items) >= 2
    /\ Len(population) = 2
    /\ best_solution # None
    /\ bits[population[1]] # bits[population[2]]

\* C24: right after the initial population is built and right after the
\* best-so-far update of every generation, the fitness of the best-so-far
\* candidate on its current bits is at least the fitness of every candidate of
\* the current population; and when the final population holds a feasible
\* candidate of value v, the response reports the best-so-far candidate, with
\* total_value at least v.
C24_BestCoversCurrentPopulation ==
    /\ pc = "loop" =>
          \A i \in DOMAIN population :
             /\ best_solution # None
             /\ fitness(items, bits[best_solution], max_weight)
                   >= fitness(items, bits[population[i]], max_weight)
    /\ Succeeded =>
          \A i \in DOMAIN population :
             SigmaWeight(items, bits[population[i]]) <= max_weight =>
                /\ response = ReportOf(items, bits[best_solution])
                /\ response.total_value >= SigmaValue(items, bits[population[i]])

\* after a generation, the final population holds a feasible candidate of
\* positive value and a candidate of smaller fitness than the best-so-far, and
\* the response reports the best-so-far
C24_Witness ==
    /\ Succeeded
    /\ transitions >= 1
    /\ \E i, j \in DOMAIN population :
          /\ SigmaWeight(items, bits[population[i]]) <= max_weight
          /\ SigmaValue(items, bits[population[i]]) > 0
          /\ fitness(items, bits[population[j]], max_weight)
                < fitness(items, bits[best_solution], max_weight)
    /\ response.total_value > 0
    /\ response = ReportOf(items, bits[best_solution])

\* C25: during a generational transition mutation modifies only candidates
\* that crossover created in that transition: it leaves the bits of the
\* candidates of the current population, of the candidates already carried
\* into the next population and of the best-so-far candidate as they are, also
\* when crossover is skipped.
C25_MutationSparesExisting ==
    [][(pc = "crossed" /\ pc' = "fill") =>
          \A x \in Range(population) \cup Range(next_gen)
                    \cup ({best_solution} \ {None}) :
             bits'[x] = bits[x]]_vars

\* C26: a success response is internally consistent: when the best-so-far
\* candidate at return time is within the capacity, selected_items are the
\* catalog items whose bit is 1, in catalog order and each position at most
\* once, total_value is the sum of their values and total_weight the sum of
\* their weights; otherwise the three are the empty list, 0 and 0.
C26_ResponseConsistent ==
    Succeeded =>
       /\ response = (IF best_solution # None
                         /\ SigmaWeight(items, bits[best_solution]) <= max_weight
                      THEN ReportOf(items, bits[best_solution])
                      ELSE EmptyReport)
       /\ LET sel == response.selected_items
          IN /\ \E pos \in [DOMAIN sel -> DOMAIN items] :
                   /\ \A k, m \in DOMAIN sel : k < m => pos[k] < pos[m]
                   /\ \A k \in DOMAIN sel : sel[k] = items[pos[k]]
                   /\ best_solution # None =>
                         \A i \in DOMAIN items :
                            (\E k \in DOMAIN sel : pos[k] = i) =>
                               bits[best_solution][i] = 1
             /\ response.total_value = SumSeq([k \in DOMAIN sel |-> sel[k].value])
             /\ response.total_weight = SumSeq([k \in DOMAIN sel |-> sel[k].weight])

\* after a generation the response reports a proper, non-empty selection of
\* the catalog
C26_Witness ==
    /\ Succeeded
    /\ transitions >= 1
    /\ Len(response.selected_items) >= 1
    /\ Len(response.selected_items) < Len(items)
    /\ response.total_value > 0
    /\ response = ReportOf(items, bits[best_solution])

\* C5: fitness is total_value (>= 0) when total_weight <= max_weight and
\* -(total_weight - max_weight) (< 0) otherwise; of two infeasible candidates the
\* one with the larger overshoot has the strictly smaller fitness.
C5_FitnessCases ==
    pc = "evaluated" =>
      /\ \A i \in DOMAIN evaluated :
            LET v == SigmaValue(items, bits[population[i]])
                w == SigmaWeight(items, bits[population[i]])
                f == evaluated[i].fitness
            IN /\ w <= max_weight => f = v /\ f >= 0
               /\ w > max_weight => f = -(w - max_weight) /\ f < 0
      /\ \A i, j \in DOMAIN evaluated :
            LET wi == SigmaWeight(items, bits[population[i]])
                wj == SigmaWeight(items, bits[population[j]])
            IN (wi > max_weight /\ wj > wi) => evaluated[j].fitness < evaluated[i].fitness

\* a feasible candidate of positive value and two infeasible candidates of
\* different overshoot have been evaluated
C5_Witness ==
    /\ pc = "evaluated"
    /\ \E i, j, k \in DOMAIN evaluated :
          /\ SigmaWeight(items, bits[population[i]]) > max_weight
          /\ SigmaWeight(items, bits[population[j]]) > SigmaWeight(items, bits[population[i]])
          /\ evaluated[j].fitness < evaluated[i].fitness
          /\ evaluated[k].fitness > 0

\* C6: fitness <= total_value for every candidate, with equality exactly when the
\* candidate is feasible.
C6_FitnessBelowValue ==
    pc = "evaluated" =>
      \A i \in DOMAIN evaluated :
         LET v == SigmaValue(items, bits[population[i]])
             w == SigmaWeight(items, bits[population[i]])
             f == evaluated[i].fitness
         IN /\ f <= v
            /\ (f = v) <=> (w <= max_weight)

\* a feasible candidate of positive value on the capacity limit and an infeasible
\* one of value 0 have been evaluated
C6_Witness ==
    /\ pc = "evaluated"
    /\ \E i, j \in DOMAIN evaluated :
          /\ SigmaWeight(items, bits[population[i]]) = max_weight
          /\ SigmaValue(items, bits[population[i]]) > 0
          /\ evaluated[i].fitness = SigmaValue(items, bits[population[i]])
          /\ SigmaWeight(items, bits[population[j]]) > max_weight
          /\ SigmaValue(items, bits[population[j]]) = 0
          /\ evaluated[j].fitness < 0

====
